---- MODULE Spec2Model ----
(***************************************************************************)
(* spawn-ptrace: Command::spawn_ptrace (src/lib.rs).                       *)
(*                                                                         *)
(* The caller thread runs spawn_ptrace: it attaches a pre_exec hook that   *)
(* calls ptrace::traceme, calls Command::spawn (fork, hooks in the child,  *)
(* exec, error reported back over std's close-on-exec pipe), then calls    *)
(* waitpid once on the new pid and matches the status against              *)
(* Stopped(_, SIGTRAP).  The operating system is modelled by the children  *)
(* (one record per pid), by signals sent by third parties, and by other    *)
(* threads of the caller that wait on or resume children.                  *)
(***************************************************************************)
EXTENDS Integers, FiniteSets, Sequences, TLC

\* Bound: the number of spawn_ptrace calls the caller makes (one pid each).
MaxCalls == 2

Pids == 1..MaxCalls

\* Signals a child can be stopped or terminated by.
Signals == {"SIGTRAP", "SIGUSR1", "SIGKILL"}

\* Exit codes of the target programs the caller may launch.
ExitCodes == {0, 3}

\* nix::Error values ptrace::traceme can hand to the hook's map_err:
\* Sys(errno), or a variant that is not an OS error.
TracemeErrnos == {"EPERM", "EBUSY"}
NixSys(e) == [variant |-> "Sys", errno |-> e]
NixUnsupported == [variant |-> "UnsupportedOperation", errno |-> "-"]
NixOk == [variant |-> "Ok", errno |-> "-"]

\* `e as i32` for an Errno (libc's numbering).
ErrnoAsI32(e) ==
    CASE e = "EPERM"  -> 1
      [] e = "ENOENT" -> 2
      [] e = "ESRCH"  -> 3
      [] e = "EINTR"  -> 4
      [] e = "ECHILD" -> 10
      [] e = "EAGAIN" -> 11
      [] e = "EBUSY"  -> 16
      [] e = "EINVAL" -> 22

\* io::Error values: from_raw_os_error(n) keeps the code; Error::new(kind,
\* msg) has no OS code (raw_os_error() is None, written -1 here).
FromRawOsError(n) == [kind |-> "Os", code |-> n, msg |-> ""]
IoErrorNew(kind, msg) == [kind |-> kind, code |-> -1, msg |-> msg]
NoError == [kind |-> "-", code |-> -1, msg |-> ""]

\* WaitStatus values (nix::sys::wait::WaitStatus), one record shape.
Stopped(p, s) == [tag |-> "Stopped", pid |-> p, sig |-> s, code |-> -1]
Exited(p, c) == [tag |-> "Exited", pid |-> p, sig |-> "-", code |-> c]
Signaled(p, s) == [tag |-> "Signaled", pid |-> p, sig |-> s, code |-> -1]
NoStatus == [tag |-> "None", pid |-> 0, sig |-> "-", code |-> -1]

\* Result<WaitStatus, nix::Error> of waitpid; NoWait before it has returned.
WaitOk(st) == [ok |-> TRUE, st |-> st, errno |-> "-"]
WaitErr(e) == [ok |-> FALSE, st |-> NoStatus, errno |-> e]
NoWait == [ok |-> FALSE, st |-> NoStatus, errno |-> "none"]

\* Result<Child> of spawn_ptrace; NoResult while the call is running.
Ok(p) == [tag |-> "Ok", pid |-> p, err |-> NoError]
Err(e) == [tag |-> "Err", pid |-> 0, err |-> e]
NoResult == [tag |-> "None", pid |-> 0, err |-> NoError]

\* The closure given to pre_exec maps the error of ptrace::traceme.
TracemeMapErrAllOther(e) ==
    IoErrorNew("Other", "unknown PTRACE_TRACEME error")

\* The other arm answers with a fixed errno, as a hook that has to give
\* spawn an OS error code would.
TracemeMapErrEinval(e) ==
    IF e.variant = "Sys"
    THEN FromRawOsError(ErrnoAsI32(e.errno))
    ELSE FromRawOsError(ErrnoAsI32("EINVAL"))

TracemeMapErr(e) ==
    IF e.variant = "Sys"
    THEN FromRawOsError(ErrnoAsI32(e.errno))
    ELSE IoErrorNew("Other", "unknown PTRACE_TRACEME error")

\* std's child side of spawn writes the hook's or exec's error to the pipe
\* as raw_os_error().unwrap_or(EINVAL); the parent side rebuilds it with
\* from_raw_os_error, and `?` returns it.
PipeCode(ioerr) ==
    IF ioerr.code # -1 THEN ioerr.code ELSE ErrnoAsI32("EINVAL")

\* The match on waitpid's result.
ClassifyAnyStop(wr, p) ==
    IF wr.ok /\ wr.st.tag = "Stopped"
    THEN Ok(p)
    ELSE Err(IoErrorNew("Other", "Child state not correct"))

ClassifyKeepErrno(wr, p) ==
    IF wr.ok /\ wr.st.tag = "Stopped" /\ wr.st.sig = "SIGTRAP"
    THEN Ok(p)
    ELSE IF wr.ok
         THEN Err(FromRawOsError(ErrnoAsI32("ECHILD")))
         ELSE Err(FromRawOsError(ErrnoAsI32(wr.errno)))

Classify(wr, p) ==
    IF wr.ok /\ wr.st.tag = "Stopped" /\ wr.st.sig = "SIGTRAP"
    THEN Ok(p)
    ELSE Err(IoErrorNew("Other", "Child state not correct"))

VARIABLES
    cmd,        \* the Command (self): hooks attached, target path, target's exit code
    calls,      \* spawn_ptrace calls started so far
    phase,      \* where the current call is
    curPid,     \* child.id() of the current call (0: no child)
    spawnRes,   \* what Command::spawn returned in the current call
    waitCalls,  \* waitpid invocations made by the current call
    waitRes,    \* what waitpid returned in the current call
    result,     \* what the current call returned
    nextPid,    \* the pid the next fork gets
    proc,       \* the children, by pid
    owner,      \* what the caller did with each returned handle
    ownerRes    \* what the caller's own cont/waitpid on a handle's pid returned

vars == <<cmd, calls, phase, curPid, spawnRes, waitCalls, waitRes, result,
          nextPid, proc, owner, ownerRes>>

callVars == <<phase, curPid, spawnRes, waitCalls, waitRes, result>>

\* A child's record.  hookErr is the io::Error its pre_exec closure returned.
\* reapedBy, otherThread and extSignal are history: who reaped it, whether another thread of the caller has waited on or resumed
\* it, whether a third party's signal has reached it.
Unborn ==
    [img |-> "none", run |-> "no", traced |-> FALSE, hooksRun |-> 0,
     tracemeErr |-> NixOk, trapPending |-> FALSE, instr |-> 0,
     report |-> NoStatus, pipe |-> "none", pipeCode |-> -1, exitCode |-> -1,
     hookErr |-> NoError, reapedBy |-> "-", otherThread |-> FALSE, extSignal |-> FALSE]

Commands == [hooks : {0}, exists : BOOLEAN, exit : ExitCodes]

Init ==
    /\ cmd \in Commands
    /\ calls = 1
    /\ phase = "Unstarted"
    /\ curPid = 0
    /\ spawnRes = "none"
    /\ waitCalls = 0
    /\ waitRes = NoWait
    /\ result = NoResult
    /\ nextPid = 1
    /\ proc = [p \in Pids |-> Unborn]
    /\ owner = [p \in Pids |-> "none"]
    /\ ownerRes = [p \in Pids |-> NoWait]

Terminal == {"VerifiedStopped", "Rejected"}

----------------------------------------------------------------------------
(* The caller thread inside spawn_ptrace.                                  *)

\* self.pre_exec(|| ptrace::traceme().map_err(..)): one more closure on self.
PreExec ==
    /\ phase = "Unstarted"
    /\ cmd' = [cmd EXCEPT !.hooks = @ + 1]
    /\ phase' = "Attached"
    /\ UNCHANGED <<calls, curPid, spawnRes, waitCalls, waitRes, result,
                   nextPid, proc, owner, ownerRes>>

\* .spawn(): fork.  The parent then blocks reading the error pipe.
SpawnFork ==
    /\ phase = "Attached"
    /\ proc' = [proc EXCEPT ![nextPid] =
                   [Unborn EXCEPT !.img = "fork", !.run = "running",
                                  !.pipe = "open"]]
    /\ curPid' = nextPid
    /\ nextPid' = nextPid + 1
    /\ phase' = "Spawning"
    /\ UNCHANGED <<cmd, calls, spawnRes, waitCalls, waitRes, result, owner,
                   ownerRes>>

\* .spawn()?: fork itself fails (EAGAIN); `?` returns the error.
SpawnForkFails ==
    /\ phase = "Attached"
    /\ spawnRes' = "err"
    /\ result' = Err(FromRawOsError(ErrnoAsI32("EAGAIN")))
    /\ phase' = "Rejected"
    /\ UNCHANGED <<cmd, calls, curPid, waitCalls, waitRes, nextPid, proc,
                   owner, ownerRes>>

\* .spawn() returns Ok(child): the pipe reached end of file (the child's
\* exec closed it, or the child died with it open).
SpawnOkNoWait ==
    /\ phase = "Spawning"
    /\ proc[curPid].pipe = "eof"
    /\ spawnRes' = "ok"
    /\ result' = Ok(curPid)
    /\ owner' = [owner EXCEPT ![curPid] = "held"]
    /\ phase' = "VerifiedStopped"
    /\ UNCHANGED <<cmd, calls, curPid, waitCalls, waitRes, nextPid, proc,
                   ownerRes>>

SpawnOk ==
    /\ phase = "Spawning"
    /\ proc[curPid].pipe = "eof"
    /\ spawnRes' = "ok"
    /\ phase' = "Created"
    /\ UNCHANGED <<cmd, calls, curPid, waitCalls, waitRes, result, nextPid,
                   proc, owner, ownerRes>>

\* .spawn()? returns Err: the child wrote an error code to the pipe and
\* exited; std reaps it, and `?` returns the error at once.
SpawnErrIgnored ==
    /\ phase = "Spawning"
    /\ proc[curPid].pipe = "err"
    /\ proc' = [proc EXCEPT ![curPid].run = "reaped",
                            ![curPid].report = NoStatus,
                            ![curPid].reapedBy = "std"]
    /\ spawnRes' = "err"
    /\ phase' = "Created"
    /\ UNCHANGED <<cmd, calls, curPid, waitCalls, waitRes, result, nextPid,
                   owner, ownerRes>>

SpawnErrGeneric ==
    /\ phase = "Spawning"
    /\ proc[curPid].pipe = "err"
    /\ proc' = [proc EXCEPT ![curPid].run = "reaped",
                            ![curPid].report = NoStatus,
                            ![curPid].reapedBy = "std"]
    /\ spawnRes' = "err"
    /\ result' = Err(IoErrorNew("Other", "spawn failed"))
    /\ phase' = "Rejected"
    /\ UNCHANGED <<cmd, calls, curPid, waitCalls, waitRes, nextPid, owner,
                   ownerRes>>

SpawnErr ==
    /\ phase = "Spawning"
    /\ proc[curPid].pipe = "err"
    /\ proc' = [proc EXCEPT ![curPid].run = "reaped",
                            ![curPid].report = NoStatus,
                            ![curPid].reapedBy = "std"]
    /\ spawnRes' = "err"
    /\ result' = Err(FromRawOsError(proc[curPid].pipeCode))
    /\ phase' = "Rejected"
    /\ UNCHANGED <<cmd, calls, curPid, waitCalls, waitRes, nextPid, owner,
                   ownerRes>>

StillAlive == [tag |-> "StillAlive", pid |-> 0, sig |-> "-", code |-> -1]

\* waitpid(Some(Pid::from_raw(child.id() as i32)), None): the call is made
\* and the thread blocks.
CallWaitpidNoHang ==
    /\ phase = "Created"
    /\ waitCalls' = waitCalls + 1
    /\ waitRes' = WaitOk(StillAlive)
    /\ phase' = "WaitedOn"
    /\ UNCHANGED <<cmd, calls, curPid, spawnRes, result, nextPid, proc, owner,
                   ownerRes>>

CallWaitpid ==
    /\ phase = "Created"
    /\ waitCalls' = waitCalls + 1
    /\ phase' = "Waiting"
    /\ UNCHANGED <<cmd, calls, curPid, spawnRes, waitRes, result, nextPid,
                   proc, owner, ownerRes>>

\* The kernel's side of a wait on pid p that finds a status to report: the
\* status is consumed, and a zombie is reaped.
Consume(p, by) ==
    [proc EXCEPT ![p].report = NoStatus,
                 ![p].run = IF proc[p].run = "zombie" THEN "reaped" ELSE @,
                 ![p].reapedBy = IF proc[p].run = "zombie" THEN by ELSE @]

\* waitpid returns Ok(status): a status change of curPid is pending.
\* waitpid(-1, None) in place of waitpid(Some(pid), None): the wait returns
\* on the status change of any child of the caller.
WaitpidReturnAny ==
    /\ phase = "Waiting"
    /\ \E q \in Pids :
          /\ proc[q].report # NoStatus
          /\ waitRes' = WaitOk(proc[q].report)
          /\ proc' = Consume(q, "spawn")
    /\ phase' = "WaitedOn"
    /\ UNCHANGED <<cmd, calls, curPid, spawnRes, waitCalls, result, nextPid,
                   owner, ownerRes>>

WaitpidReturnNoConsume ==
    /\ phase = "Waiting"
    /\ proc[curPid].report # NoStatus
    /\ waitRes' = WaitOk(proc[curPid].report)
    /\ phase' = "WaitedOn"
    /\ UNCHANGED <<cmd, calls, curPid, spawnRes, waitCalls, result, nextPid,
                   proc, owner, ownerRes>>

WaitpidReturn ==
    /\ phase = "Waiting"
    /\ proc[curPid].report # NoStatus
    /\ waitRes' = WaitOk(proc[curPid].report)
    /\ proc' = Consume(curPid, "spawn")
    /\ phase' = "WaitedOn"
    /\ UNCHANGED <<cmd, calls, curPid, spawnRes, waitCalls, result, nextPid,
                   owner, ownerRes>>

\* waitpid returns Err(EINTR): a signal handler of the caller interrupted it.
WaitpidInterrupted ==
    /\ phase = "Waiting"
    /\ waitRes' = WaitErr("EINTR")
    /\ phase' = "WaitedOn"
    /\ UNCHANGED <<cmd, calls, curPid, spawnRes, waitCalls, result, nextPid,
                   proc, owner, ownerRes>>

\* waitpid returns Err(ECHILD): the child was already reaped by someone else.
WaitpidNoChild ==
    /\ phase = "Waiting"
    /\ proc[curPid].run = "reaped"
    /\ waitRes' = WaitErr("ECHILD")
    /\ phase' = "WaitedOn"
    /\ UNCHANGED <<cmd, calls, curPid, spawnRes, waitCalls, result, nextPid,
                   proc, owner, ownerRes>>

\* The match arms: Ok(child) or Err("Child state not correct"); the call
\* returns.
MatchRetry ==
    /\ phase = "WaitedOn"
    /\ IF Classify(waitRes, curPid).tag = "Ok"
       THEN /\ result' = Classify(waitRes, curPid)
            /\ phase' = "VerifiedStopped"
            /\ owner' = [owner EXCEPT ![curPid] = "held"]
            /\ waitRes' = waitRes
       ELSE /\ phase' = "Created"
            /\ waitRes' = NoWait
            /\ UNCHANGED <<result, owner>>
    /\ UNCHANGED <<cmd, calls, curPid, spawnRes, waitCalls, nextPid, proc,
                   ownerRes>>

MatchCleanup ==
    /\ phase = "WaitedOn"
    /\ result' = Classify(waitRes, curPid)
    /\ phase' = IF result'.tag = "Ok" THEN "VerifiedStopped" ELSE "Rejected"
    /\ owner' = IF result'.tag = "Ok"
                THEN [owner EXCEPT ![curPid] = "held"]
                ELSE owner
    /\ proc' = IF result'.tag = "Ok" \/ proc[curPid].run = "reaped"
               THEN proc
               ELSE [proc EXCEPT ![curPid].run = "reaped",
                                 ![curPid].report = NoStatus,
                                 ![curPid].trapPending = FALSE,
                                 ![curPid].reapedBy = "spawn"]
    /\ UNCHANGED <<cmd, calls, curPid, spawnRes, waitCalls, waitRes, nextPid,
                   ownerRes>>

Match ==
    /\ phase = "WaitedOn"
    /\ result' = Classify(waitRes, curPid)
    /\ phase' = IF result'.tag = "Ok" THEN "VerifiedStopped" ELSE "Rejected"
    /\ owner' = IF result'.tag = "Ok"
                THEN [owner EXCEPT ![curPid] = "held"]
                ELSE owner
    /\ UNCHANGED <<cmd, calls, curPid, spawnRes, waitCalls, waitRes, nextPid,
                   proc, ownerRes>>

\* A child whose call returned no handle (the caller has no way to name it
\* again), or whose handle the caller has resumed and waited on, or dropped:
\* the model follows it no further.  The caller keeps the handle of its
\* latest call at most.
Leaked == [Unborn EXCEPT !.img = "leaked"]
Finished(p) == owner[p] \in {"none", "waited", "failed"} \/ p # curPid

\* The caller makes its next call, on the same Command or on a new one.
NextCall ==
    /\ phase \in Terminal
    /\ calls < MaxCalls
    /\ calls' = calls + 1
    /\ \E reuse \in BOOLEAN :
          IF reuse THEN cmd' = cmd ELSE cmd' \in Commands
    /\ phase' = "Unstarted"
    /\ curPid' = 0
    /\ spawnRes' = "none"
    /\ waitCalls' = 0
    /\ waitRes' = NoWait
    /\ result' = NoResult
    /\ proc' = [p \in Pids |->
                   IF proc[p].img # "none" /\ Finished(p)
                   THEN Leaked ELSE proc[p]]
    /\ owner' = [p \in Pids |-> IF Finished(p) THEN "none" ELSE owner[p]]
    /\ ownerRes' = [p \in Pids |-> IF Finished(p) THEN NoWait ELSE ownerRes[p]]
    /\ UNCHANGED nextPid

----------------------------------------------------------------------------
(* The child, between fork and exec and after it.                          *)

\* What PTRACE_TRACEME can answer in child c: a process that is already
\* traced gets EPERM; otherwise success, an errno, or a non-OS error.
TracemeOutcomes(c) ==
    IF c.traced
    THEN {NixSys("EPERM")}
    ELSE {NixOk} \cup {NixSys(e) : e \in TracemeErrnos} \cup {NixUnsupported}

\* The child runs the next pre_exec closure of the Command: ptrace::traceme()
\* and its map_err.  An Err goes to the pipe and the child exits.
ChildHookSwallow(p) ==
    /\ proc[p].img = "fork"
    /\ proc[p].run = "running"
    /\ proc[p].pipe = "open"
    /\ proc[p].hooksRun < cmd.hooks
    /\ \E r \in TracemeOutcomes(proc[p]) :
          IF r = NixOk
          THEN proc' = [proc EXCEPT ![p].hooksRun = @ + 1,
                                    ![p].traced = TRUE]
          ELSE proc' = [proc EXCEPT ![p].hooksRun = @ + 1,
                                    ![p].tracemeErr = r]
    /\ UNCHANGED <<cmd, calls, callVars, nextPid, owner, ownerRes>>

ChildHook(p) ==
    /\ proc[p].img = "fork"
    /\ proc[p].run = "running"
    /\ proc[p].pipe = "open"
    /\ proc[p].hooksRun < cmd.hooks
    /\ \E r \in TracemeOutcomes(proc[p]) :
          IF r = NixOk
          THEN proc' = [proc EXCEPT ![p].hooksRun = @ + 1,
                                    ![p].traced = TRUE]
          ELSE proc' = [proc EXCEPT ![p].hooksRun = @ + 1,
                                    ![p].tracemeErr = r,
                                    ![p].hookErr = TracemeMapErr(r),
                                    ![p].pipe = "err",
                                    ![p].pipeCode = PipeCode(TracemeMapErr(r)),
                                    ![p].run = "zombie",
                                    ![p].report = Exited(p, 1)]
    /\ UNCHANGED <<cmd, calls, callVars, nextPid, owner, ownerRes>>

\* Every closure returned Ok: the child execs the target.  Success closes
\* the pipe and, in a traced child, raises SIGTRAP; failure (no such file)
\* goes to the pipe and the child exits.
ChildExec(p) ==
    /\ proc[p].img = "fork"
    /\ proc[p].run = "running"
    /\ proc[p].pipe = "open"
    /\ proc[p].hooksRun = cmd.hooks
    /\ IF cmd.exists
       THEN proc' = [proc EXCEPT ![p].img = "target",
                                 ![p].pipe = "eof",
                                 ![p].trapPending = proc[p].traced,
                                 ![p].exitCode = cmd.exit]
       ELSE proc' = [proc EXCEPT ![p].pipe = "err",
                                 ![p].pipeCode = ErrnoAsI32("ENOENT"),
                                 ![p].run = "zombie",
                                 ![p].report = Exited(p, 1)]
    /\ UNCHANGED <<cmd, calls, callVars, nextPid, owner, ownerRes>>

\* The exec SIGTRAP is delivered: the traced child stops, before any
\* instruction of the target.
ChildTrapStop(p) ==
    /\ proc[p].run = "running"
    /\ proc[p].trapPending
    /\ proc' = [proc EXCEPT ![p].run = "stopped",
                            ![p].trapPending = FALSE,
                            ![p].report = Stopped(p, "SIGTRAP")]
    /\ UNCHANGED <<cmd, calls, callVars, nextPid, owner, ownerRes>>

\* The target program executes instructions.
ChildStep(p) ==
    /\ proc[p].img = "target"
    /\ proc[p].run = "running"
    /\ ~proc[p].trapPending
    /\ proc[p].instr = 0
    /\ proc' = [proc EXCEPT ![p].instr = 1]
    /\ UNCHANGED <<cmd, calls, callVars, nextPid, owner, ownerRes>>

\* The target program exits with its exit code.
ChildExit(p) ==
    /\ proc[p].img = "target"
    /\ proc[p].run = "running"
    /\ ~proc[p].trapPending
    /\ proc[p].instr = 1
    /\ proc' = [proc EXCEPT ![p].run = "zombie",
                            ![p].report = Exited(p, proc[p].exitCode)]
    /\ UNCHANGED <<cmd, calls, callVars, nextPid, owner, ownerRes>>

----------------------------------------------------------------------------
(* The caller after a handle was returned (tests::test_spawn_ptrace).      *)

\* ptrace::cont(pid, None): resumes a stopped tracee, else fails (ESRCH).
CallerCont(p) ==
    /\ owner[p] = "held"
    /\ IF proc[p].run = "stopped" /\ proc[p].traced
       THEN /\ proc' = [proc EXCEPT ![p].run = "running",
                                    ![p].report = NoStatus]
            /\ owner' = [owner EXCEPT ![p] = "resumed"]
            /\ ownerRes' = ownerRes
       ELSE /\ owner' = [owner EXCEPT ![p] = "failed"]
            /\ ownerRes' = [ownerRes EXCEPT ![p] = WaitErr("ESRCH")]
            /\ proc' = proc
    /\ UNCHANGED <<cmd, calls, callVars, nextPid>>

\* waitpid(pid, None) by the caller returns Ok(status).
CallerWait(p) ==
    /\ owner[p] = "resumed"
    /\ proc[p].report # NoStatus
    /\ ownerRes' = [ownerRes EXCEPT ![p] = WaitOk(proc[p].report)]
    /\ proc' = Consume(p, "caller")
    /\ owner' = [owner EXCEPT ![p] = "waited"]
    /\ UNCHANGED <<cmd, calls, callVars, nextPid>>

\* waitpid(pid, None) by the caller fails: the child is already reaped.
CallerWaitNoChild(p) ==
    /\ owner[p] = "resumed"
    /\ proc[p].run = "reaped"
    /\ ownerRes' = [ownerRes EXCEPT ![p] = WaitErr("ECHILD")]
    /\ owner' = [owner EXCEPT ![p] = "waited"]
    /\ UNCHANGED <<cmd, calls, callVars, nextPid, proc>>

----------------------------------------------------------------------------
(* The rest of the system: signals from third parties, and other threads   *)
(* of the caller.                                                          *)

\* Someone sends signal s to child p.  SIGKILL terminates it in any state.
\* Another signal reaches a running child: a traced child stops with it
\* (signal-delivery-stop), an untraced one is terminated by it.  POSIX leaves
\* the delivery order of several pending signals open, so s may be delivered
\* before a pending exec SIGTRAP; a second SIGTRAP merges with a pending one.
ExtSignal(p, s) ==
    /\ proc[p].run \in {"running", "stopped"}
    /\ s # "SIGKILL" => proc[p].run = "running"
    /\ IF s = "SIGKILL" \/ ~proc[p].traced
       THEN proc' = [proc EXCEPT ![p].run = "zombie",
                                 ![p].trapPending = FALSE,
                                 ![p].report = Signaled(p, s),
                                 ![p].pipe = IF @ = "open" THEN "eof" ELSE @,
                                 ![p].extSignal = TRUE]
       ELSE proc' = [proc EXCEPT ![p].run = "stopped",
                                 ![p].trapPending =
                                     IF s = "SIGTRAP" THEN FALSE ELSE @,
                                 ![p].report = Stopped(p, s),
                                 ![p].extSignal = TRUE]
    /\ UNCHANGED <<cmd, calls, callVars, nextPid, owner, ownerRes>>

\* Another thread of the caller waits for any child (wait(), waitpid(-1))
\* and gets p's pending status.
OtherWait(p) ==
    /\ proc[p].report # NoStatus
    /\ ~(p = curPid /\ phase = "Spawning")
    /\ proc' = [Consume(p, "other") EXCEPT ![p].otherThread = TRUE]
    /\ UNCHANGED <<cmd, calls, callVars, nextPid, owner, ownerRes>>

\* Another thread of the caller resumes a stopped tracee (where the tracer
\* is the process, not the thread).
OtherCont(p) ==
    /\ proc[p].run = "stopped"
    /\ proc[p].traced
    /\ proc' = [proc EXCEPT ![p].run = "running", ![p].report = NoStatus,
                            ![p].otherThread = TRUE]
    /\ UNCHANGED <<cmd, calls, callVars, nextPid, owner, ownerRes>>

----------------------------------------------------------------------------
(* Specifications.                                                         *)

\* The caller thread, the children and the caller's use of its handles.
ProtocolNext ==
    \/ PreExec
    \/ SpawnFork
    \/ SpawnForkFails
    \/ SpawnOk
    \/ SpawnErr
    \/ CallWaitpid
    \/ WaitpidReturn
    \/ Match
    \/ NextCall
    \/ \E p \in Pids : ChildHook(p)
    \/ \E p \in Pids : ChildExec(p)
    \/ \E p \in Pids : ChildTrapStop(p)
    \/ \E p \in Pids : ChildStep(p)
    \/ \E p \in Pids : ChildExit(p)
    \/ \E p \in Pids : CallerCont(p)
    \/ \E p \in Pids : CallerWait(p)

\* A single-threaded caller in an open system: signals from third parties
\* and interrupted waits as well.
SingleNext ==
    \/ ProtocolNext
    \/ WaitpidInterrupted
    \/ \E p \in Pids, s \in Signals : ExtSignal(p, s)

\* Everything: other threads of the caller as well.
Next ==
    \/ SingleNext
    \/ WaitpidNoChild
    \/ \E p \in Pids : CallerWaitNoChild(p)
    \/ \E p \in Pids : OtherWait(p)
    \/ \E p \in Pids : OtherCont(p)

Spec == Init /\ [][Next]_vars

ProtocolSpec == Init /\ [][ProtocolNext]_vars

\* The caller thread keeps running, and the kernel delivers a pending exec
\* SIGTRAP.
Fairness ==
    /\ WF_vars(SpawnOk)
    /\ WF_vars(SpawnErr)
    /\ WF_vars(CallWaitpid)
    /\ WF_vars(WaitpidReturn)
    /\ WF_vars(Match)
    /\ WF_vars(\E p \in Pids : ChildTrapStop(p))

FairSpec == Init /\ [][SingleNext]_vars /\ Fairness

----------------------------------------------------------------------------
(* Properties.                                                             *)

TrapStop(p) == WaitOk(Stopped(p, "SIGTRAP"))

ChildStateNotCorrect ==
    [kind |-> "Other", code |-> -1, msg |-> "Child state not correct"]

\* C1: a call returns a handle (Ok) only if its waitpid, on the pid of the
\* child created by that same call, reported Stopped(pid, SIGTRAP); a call
\* that has returned after any other outcome of the wait (another stop
\* signal, exited, signaled, a wait error, no wait at all) returned Err.
C1_HandleOnlyAfterTrapStop ==
    /\ result.tag = "Ok" =>
          /\ phase = "VerifiedStopped"
          /\ spawnRes = "ok"
          /\ curPid \in Pids
          /\ result.pid = curPid
          /\ waitRes = TrapStop(curPid)
    /\ (phase \in Terminal /\ waitRes # TrapStop(curPid)) =>
          /\ result.tag = "Err"
          /\ \A p \in Pids : p = curPid => owner[p] = "none"

\* The first call returned a handle, the second one was refused after its
\* child stopped on another signal.
C1_Witness ==
    /\ calls = 2
    /\ owner[1] = "held"
    /\ curPid = 2
    /\ waitRes = WaitOk(Stopped(2, "SIGUSR1"))
    /\ result.tag = "Err"

\* C2: from the return of a handle until the caller resumes the child, the
\* child runs the target image (exec is done), is stopped, and has executed
\* no instruction of the target; for every interleaving of the child's
\* steps with the caller thread's.
C2_StoppedAtExec ==
    \A p \in Pids :
        owner[p] = "held" =>
            /\ proc[p].img = "target"
            /\ proc[p].run = "stopped"
            /\ proc[p].traced
            /\ ~proc[p].trapPending
            /\ proc[p].instr = 0

\* A handle returned by the first call is still held, and its child still
\* stopped, while the second call is waiting for its own child.
C2_Witness ==
    /\ owner[1] = "held"
    /\ proc[1].run = "stopped"
    /\ calls = 2
    /\ phase = "Waiting"

\* The error Command::spawn returned in the current call.
CreationError ==
    IF curPid \in Pids
    THEN FromRawOsError(proc[curPid].pipeCode)
    ELSE FromRawOsError(ErrnoAsI32("EAGAIN"))

\* C3: when process creation fails (a hook failed, exec failed, fork
\* failed), the call has returned that error, with no pid and no handle, and
\* waitpid was never invoked in the call.
C3_CreationFailureReturnsAtOnce ==
    spawnRes = "err" =>
        /\ phase = "Rejected"
        /\ result = Err(CreationError)
        /\ result.pid = 0
        /\ waitCalls = 0
        /\ waitRes = NoWait
        /\ \A p \in Pids : p = curPid => owner[p] = "none"

\* The target path does not exist: exec failed with ENOENT in a traced child.
C3_Witness ==
    /\ spawnRes = "err"
    /\ curPid \in Pids
    /\ ~cmd.exists
    /\ proc[curPid].traced
    /\ proc[curPid].pipeCode = 2
    /\ result.err.code = 2

\* C4: when ptrace::traceme failed in the call's child with an OS error
\* code, process creation failed and the call returned an error carrying
\* that code, and no handle.
C4_TracemeErrnoReturned ==
    \A p \in Pids :
        (p = curPid /\ proc[p].tracemeErr.variant = "Sys"
            /\ phase # "Spawning") =>
            /\ spawnRes = "err"
            /\ result.tag = "Err"
            /\ result.err.kind = "Os"
            /\ result.err.code = ErrnoAsI32(proc[p].tracemeErr.errno)
            /\ owner[p] = "none"

\* The trace request failed with EBUSY (16) and the call returned it.
C4_Witness ==
    /\ curPid \in Pids
    /\ proc[curPid].tracemeErr = NixSys("EBUSY")
    /\ proc[curPid].hooksRun = 1
    /\ result.tag = "Err"
    /\ result.err.code = 16

\* C5: when process creation succeeded and waitpid returned Ok with a status
\* other than Stopped(_, SIGTRAP), the call returned the error "Child state
\* not correct", of kind Other, with no OS error code.
C5_UnexpectedStatusIsGeneric ==
    (phase \in Terminal /\ spawnRes = "ok" /\ waitRes.ok
        /\ ~(waitRes.st.tag = "Stopped" /\ waitRes.st.sig = "SIGTRAP")) =>
        /\ phase = "Rejected"
        /\ result = Err(ChildStateNotCorrect)

\* The wait reported that the child exited, and the call was refused.
C5_Witness ==
    /\ phase = "Rejected"
    /\ spawnRes = "ok"
    /\ waitRes.ok
    /\ waitRes.st.tag = "Exited"
    /\ waitRes.st.pid = curPid

\* C6 (as stated): a call that has returned has invoked waitpid exactly
\* once, whatever its outcome, creation failure included.
C6_ExactlyOneWaitAlways ==
    phase \in Terminal => waitCalls = 1

\* C6 (amended): a call never invokes waitpid more than once; a call that
\* has returned has invoked it exactly once if process creation succeeded
\* and not at all if process creation failed.
C6_OneWaitIffCreated ==
    /\ waitCalls <= 1
    /\ phase \in Terminal =>
          waitCalls = (IF spawnRes = "ok" THEN 1 ELSE 0)
    /\ phase \in {"Waiting", "WaitedOn"} => waitCalls = 1

\* The wait was interrupted and the call returned after that one wait.
C6_Witness ==
    /\ phase = "Rejected"
    /\ spawnRes = "ok"
    /\ waitRes = WaitErr("EINTR")
    /\ waitCalls = 1

\* The call's trace request and process creation return their OS error code.
CreationErrnoReturned ==
    /\ \A p \in Pids :
          (p = curPid /\ proc[p].tracemeErr.variant = "Sys") =>
              result.err = FromRawOsError(ErrnoAsI32(proc[p].tracemeErr.errno))
    /\ spawnRes = "err" =>
          /\ result.err.kind = "Os"
          /\ result.err = CreationError

\* C7 (as stated): whichever OS call of the spawn failed with an OS error
\* code (trace request, process creation, status wait), the returned error
\* carries that code.
C7_EveryErrnoReturned ==
    phase \in Terminal =>
        /\ CreationErrnoReturned
        /\ (~waitRes.ok /\ waitRes # NoWait) =>
              result.err = FromRawOsError(ErrnoAsI32(waitRes.errno))

\* C7 (amended): a failed trace request or process creation returns its OS
\* error code; a failed status wait returns the generic error "Child state
\* not correct" with no OS error code, whatever the wait's error code was.
C7_CreationErrnoReturnedWaitErrnoDropped ==
    phase \in Terminal =>
        /\ CreationErrnoReturned
        /\ (~waitRes.ok /\ waitRes # NoWait) =>
              result = Err(ChildStateNotCorrect)

\* The wait failed with ECHILD and the returned error has no code.
C7_Witness ==
    /\ phase = "Rejected"
    /\ waitRes = WaitErr("ECHILD")
    /\ result.err.code = -1

\* C8: a returned handle's child has no pending status (the exec stop was
\* consumed by the spawn's wait); when the caller resumes it and waits once
\* on its pid, the resume succeeds and the wait returns Exited(pid, code)
\* with the target program's exit code.
C8_ResumeThenWaitSeesExit ==
    \A p \in Pids :
        /\ owner[p] = "held" => proc[p].report = NoStatus
        /\ owner[p] # "failed"
        /\ owner[p] = "waited" =>
              /\ ownerRes[p] = WaitOk(Exited(p, proc[p].exitCode))
              /\ proc[p].exitCode \in ExitCodes
              /\ proc[p].run = "reaped"

\* The caller resumed a child whose program exits with 0 and got Exited(_, 0).
C8_Witness ==
    \E p \in Pids :
        /\ owner[p] = "waited"
        /\ proc[p].exitCode = 0
        /\ ownerRes[p] = WaitOk(Exited(p, 0))

\* C9: in every child the trace request is invoked at most once, for any
\* sequence of calls, repeated calls on one Command included.
C9_TraceRequestAtMostOnce ==
    \A p \in Pids : proc[p].hooksRun <= 1

\* C10 (as stated, its safety half): once process creation has succeeded,
\* the call returns only after the OS reported a status change of the child.
C10_ReturnsOnlyAfterStatusChange ==
    (phase \in Terminal /\ spawnRes = "ok") =>
        /\ waitRes.ok
        /\ waitRes.st.tag \in {"Stopped", "Exited", "Signaled"}

StatusChanges == {"Stopped", "Exited", "Signaled"}

\* C10 (amended): once process creation has succeeded, the call returns
\* only after its one waitpid has returned, with a status change of the
\* child that was pending or with a failure of the wait itself; the wait
\* returns Ok only by taking a pending status change (no timeout, no
\* polling); and if the kernel delivers the exec SIGTRAP and the caller
\* thread keeps running, the call eventually returns.
C10_ReturnsAfterWaitAndEventually ==
    /\ []((phase \in Terminal /\ spawnRes = "ok") =>
            /\ waitCalls = 1
            /\ waitRes # NoWait
            /\ waitRes.ok => waitRes.st.tag \in StatusChanges)
    /\ [][(waitRes = NoWait /\ waitRes'.ok) =>
            /\ phase = "Waiting"
            /\ proc[curPid].report # NoStatus
            /\ waitRes'.st = proc[curPid].report]_vars
    /\ (spawnRes = "ok" /\ phase \notin Terminal) ~> (phase \in Terminal)

\* The call is blocked in waitpid and the child has not changed status yet
\* (the exec SIGTRAP is still to be delivered).
C10_Witness ==
    /\ phase = "Waiting"
    /\ spawnRes = "ok"
    /\ proc[curPid].report = NoStatus
    /\ proc[curPid].trapPending

\* The states of the spec's per-call state machine: the process exists
\* from the Ok of spawn() on, and the wait is over once waitpid returned.
CallState ==
    CASE phase \in {"Unstarted", "Attached", "Spawning"} -> "Unstarted"
      [] phase \in {"Created", "Waiting"} -> "Created"
      [] OTHER -> phase

CallStateNext ==
    CASE phase' \in {"Unstarted", "Attached", "Spawning"} -> "Unstarted"
      [] phase' \in {"Created", "Waiting"} -> "Created"
      [] OTHER -> phase'

MachineEdges ==
    {<<"Unstarted", "Created">>, <<"Created", "WaitedOn">>,
     <<"WaitedOn", "VerifiedStopped">>, <<"WaitedOn", "Rejected">>}

\* C11 (as stated): within one call the state changes only along
\* Unstarted -> Created -> WaitedOn -> {VerifiedStopped | Rejected}.
C11_OnlyMachineEdges ==
    [][(calls' = calls /\ CallStateNext # CallState) =>
          <<CallState, CallStateNext>> \in MachineEdges]_vars

\* C11 (amended): within one call the state changes only along
\* Unstarted -> Created -> WaitedOn -> {VerifiedStopped | Rejected}, or
\* along Unstarted -> Rejected when process creation fails; the two final
\* states have no way out, and nothing leads back to Created from WaitedOn
\* or Rejected.
C11_MachineEdgesOrCreationFailure ==
    [][(calls' = calls /\ CallStateNext # CallState) =>
          \/ <<CallState, CallStateNext>> \in MachineEdges
          \/ /\ CallState = "Unstarted"
             /\ CallStateNext = "Rejected"
             /\ spawnRes' = "err"]_vars

\* One unexpected status (the child was killed) ended the call after its
\* single wait.
C11_Witness ==
    /\ phase = "Rejected"
    /\ waitCalls = 1
    /\ waitRes = WaitOk(Signaled(curPid, "SIGKILL"))

\* C12: the step that returns the error after a successful process
\* creation (unexpected status or wait failure) changes no child's process
\* state and makes no further wait.
C12_NoCleanupOnFailure ==
    [][(phase = "WaitedOn" /\ phase' = "Rejected") =>
          /\ proc' = proc
          /\ waitCalls' = waitCalls]_vars

\* The error was returned and the child, stopped by another signal, is
\* still alive, traced and stopped, its exec SIGTRAP still to come.
C12_Witness ==
    /\ phase = "Rejected"
    /\ waitRes = WaitOk(Stopped(curPid, "SIGUSR1"))
    /\ proc[curPid].run = "stopped"
    /\ proc[curPid].traced
    /\ proc[curPid].trapPending

\* C13: a child runs the target image only after a successful trace
\* request in that child; a child whose trace request failed never execs
\* and runs no instruction of the target.
C13_ExecOnlyWhenTraced ==
    \A p \in Pids :
        /\ proc[p].img = "target" =>
              /\ proc[p].traced
              /\ proc[p].tracemeErr = NixOk
              /\ proc[p].hooksRun >= 1
        /\ proc[p].tracemeErr # NixOk =>
              /\ proc[p].img = "fork"
              /\ proc[p].instr = 0
              /\ proc[p].run \in {"zombie", "reaped"}

\* The first trace request of a child was denied (EPERM); the child was
\* reaped without having exec'd and the call returned the error.
C13_Witness ==
    \E p \in Pids :
        /\ proc[p].tracemeErr = NixSys("EPERM")
        /\ proc[p].hooksRun = 1
        /\ ~proc[p].traced
        /\ proc[p].img = "fork"
        /\ proc[p].run = "reaped"
        /\ phase = "Rejected"

\* The child of the current call was created, no signal from outside has
\* reached it and no other thread of the caller has waited on or resumed it.
Undisturbed(p) ==
    /\ p = curPid
    /\ spawnRes = "ok"
    /\ ~proc[p].extSignal

\* C14 as stated: before the handle is returned nothing of the caller but
\* the spawn's own wait touches the new child: until that wait has returned
\* no other thread has consumed a status of the child or resumed it, the
\* spawn of a child that stops correctly returns a handle, and the child of
\* a returned handle is stopped until the caller resumes it.
C14_NothingElseReachesTheChild ==
    \A p \in Pids :
        Undisturbed(p) =>
            /\ phase \in {"Created", "Waiting"} => ~proc[p].otherThread
            /\ phase \in Terminal => result = Ok(p)
            /\ (phase = "VerifiedStopped" /\ owner[p] = "held") =>
                   /\ proc[p].run = "stopped"
                   /\ proc[p].instr = 0

\* C14 amended: when no other thread of the caller has waited on or resumed
\* the new child, the spawn of a child that stops correctly fails only if
\* its own wait was interrupted, and the child of a returned handle is
\* stopped, with no instruction of the target executed, until the caller
\* resumes it.
C14_UntouchedChildIsHandedOverStopped ==
    \A p \in Pids :
        (Undisturbed(p) /\ ~proc[p].otherThread) =>
            /\ phase = "WaitedOn" =>
                   waitRes \in {TrapStop(p), WaitErr("EINTR")}
            /\ phase \in Terminal =>
                   \/ result = Ok(p)
                   \/ /\ waitRes = WaitErr("EINTR")
                      /\ result = Err(ChildStateNotCorrect)
            /\ (phase = "VerifiedStopped" /\ owner[p] = "held") =>
                   /\ proc[p].run = "stopped"
                   /\ proc[p].instr = 0

\* The second call returned a handle to a stopped, untouched child while
\* another thread had already reaped the first call's resumed child.
C14_Witness ==
    /\ calls = 2
    /\ curPid = 2
    /\ owner[1] = "resumed"
    /\ proc[1].otherThread
    /\ proc[1].reapedBy = "other"
    /\ phase = "VerifiedStopped"
    /\ owner[2] = "held"
    /\ Undisturbed(2)
    /\ ~proc[2].otherThread
    /\ proc[2].run = "stopped"

\* C15: the steps of a spawn call leave every child but the one the call
\* created as it was, pending status included, and a status the call's wait
\* returns is a status of the pid the call created.
C15_WaitTargetsOnlyOwnPid ==
    [][(calls' = calls /\ callVars' # callVars) =>
          /\ \A q \in Pids : q # curPid' => proc'[q] = proc[q]
          /\ waitRes'.ok => waitRes'.st.pid = curPid']_vars

\* The second call's wait has returned its own child's stop while the exit
\* of the first call's child is still pending.
C15_Witness ==
    /\ curPid = 2
    /\ phase = "WaitedOn"
    /\ waitRes = TrapStop(2)
    /\ owner[1] = "resumed"
    /\ proc[1].report = Exited(1, 0)
    /\ proc[1].run = "zombie"

\* C16: when ptrace::traceme failed with an error that is not an OS error
\* code, the closure returned the error of kind Other with the message
\* "unknown PTRACE_TRACEME error" and no OS error code; an OS error code is
\* in the closure's error only when traceme gave one.
C16_UnknownTracemeErrorIsGeneric ==
    \A p \in Pids :
        /\ (proc[p].tracemeErr # NixOk /\ proc[p].tracemeErr.variant # "Sys") =>
              /\ proc[p].hookErr.kind = "Other"
              /\ proc[p].hookErr.msg = "unknown PTRACE_TRACEME error"
              /\ proc[p].hookErr.code = -1
        /\ proc[p].hookErr.kind = "Os" =>
              /\ proc[p].tracemeErr.variant = "Sys"
              /\ proc[p].hookErr.code = ErrnoAsI32(proc[p].tracemeErr.errno)

\* traceme failed without an OS error code, the closure returned the
\* generic error, and the call has returned the error spawn made of it.
C16_Witness ==
    /\ curPid \in Pids
    /\ proc[curPid].tracemeErr = NixUnsupported
    /\ proc[curPid].hookErr =
           IoErrorNew("Other", "unknown PTRACE_TRACEME error")
    /\ phase = "Rejected"
    /\ spawnRes = "err"

\* C17: when the wait of the call returned Exited or Signaled for its child,
\* the call itself has reaped the child and taken that status: no status of
\* the pid is left for any later wait, no handle exists, and the value the
\* call returns is the error "Child state not correct", which holds neither
\* the exit code nor the signal.
C17_ExitStatusConsumedAndDropped ==
    \A p \in Pids :
        (/\ p = curPid
         /\ phase \in {"WaitedOn", "Rejected"}
         /\ waitRes.ok
         /\ waitRes.st.tag \in {"Exited", "Signaled"}) =>
            /\ proc[p].run = "reaped"
            /\ proc[p].reapedBy = "spawn"
            /\ proc[p].report = NoStatus
            /\ owner[p] = "none"
            /\ ownerRes[p] = NoWait
            /\ phase = "Rejected" => result = Err(ChildStateNotCorrect)

\* The child was resumed behind the call's back and exited with code 3; the
\* call's wait took the exit and the call returned the generic error.
C17_Witness ==
    /\ curPid \in Pids
    /\ phase = "Rejected"
    /\ waitRes = WaitOk(Exited(curPid, 3))
    /\ proc[curPid].run = "reaped"
    /\ proc[curPid].reapedBy = "spawn"
    /\ result.err.code = -1

====
